---- MODULE Spec2Model ----
(***************************************************************************)
(* ClutterSeat (clutter/clutter/clutter-seat.c): the seat's private state  *)
(* (focus-inhibition refcount, pointer accessibility settings), the        *)
(* synchronous delivery of the is-unfocus-inhibited-changed signal to its  *)
(* handlers, and the device lifecycle part of handle_event_post.           *)
(***************************************************************************)
EXTENDS Integers, Sequences, FiniteSets, TLC

\* ------------------------------------------------------------------ bounds
\* inhibit_unfocus() calls, and uninhibit_unfocus() calls, explored
MaxCalls == 3
\* handlers connected to is-unfocus-inhibited-changed
NumHandlers == 2
\* emissions of is-unfocus-inhibited-changed nested in one another
MaxDepth == 2
\* largest value of the controls bitmask explored (0 = accessibility off)
MaxControls == 2
\* largest dwell_click_type explored
MaxClickType == 1
\* largest dwell_delay explored (it stands for the fields of the settings
\* other than controls and dwell_click_type)
MaxDelay == 1
\* calls into the pointer accessibility subsystem explored
MaxHookLog == 4
\* input devices of the backend
NumDevices == 3
\* device-added and device-removed notifications explored
MaxSignals == 3
\* devices the backend may name as its logical pointer
NumPointers == 2
\* largest time stamp passed to grab and ungrab
MaxTime == 1

VARIABLES
  inhibit_unfocus_count,  \* priv->inhibit_unfocus_count
  emissions,              \* stack of running is-unfocus-inhibited-changed
                          \* emissions, innermost last; the handler that is
                          \* running is the one of the innermost emission
  nInhibit,               \* calls of clutter_seat_inhibit_unfocus so far
  nUninhibit,             \* calls of clutter_seat_uninhibit_unfocus so far
  nWarnings,              \* g_warning()s of clutter_seat_uninhibit_unfocus
  nChanged,               \* emissions of is-unfocus-inhibited-changed
  lastInhibit,            \* the latest inhibit/uninhibit call
  observed,               \* the latest is_unfocus_inhibited() of a handler
  pointer_a11y_settings,  \* priv->pointer_a11y_settings
  hookLog,                \* the hooks of the pointer accessibility subsystem
                          \* that clutter_seat_set_pointer_a11y_settings ran
  lastA11y,               \* the latest call about the accessibility settings
  cycle,                  \* the hooks invoked since the stored controls
                          \* last left 0, until they are back at 0
  seat_class,             \* the optional virtual functions the backend
                          \* implements (ClutterSeatClass)
  disposed,               \* per device, the g_object_run_dispose calls on it
  signalLog,              \* device-added / device-removed emissions so far
  lastEvent,              \* the latest clutter_seat_handle_event_post call
  lastHook,               \* the call into the pointer accessibility
                          \* subsystem made by the latest accessibility
                          \* operation, if it made one: the hook, the device
                          \* it was given and the settings the seat held at
                          \* that moment
  a11y_registered,        \* per device, its registrations with the pointer
                          \* accessibility subsystem
  lastEnsure,             \* the latest clutter_seat_ensure_a11y_state call
  enable_device,          \* the device clutter_seat_enable_pointer_a11y
                          \* handed to add_device the last time it ran
  core_pointer,           \* what the backend's get_pointer returns
  device_list,            \* what the backend's peek_devices returns
  lastCall                \* the latest call of the operations that only
                          \* dispatch to the backend or query the devices

inhibitVars == <<inhibit_unfocus_count, emissions, nInhibit, nUninhibit,
                 nWarnings, nChanged, lastInhibit, observed>>

a11yVars == <<pointer_a11y_settings, hookLog, lastA11y, cycle, lastHook,
              a11y_registered, lastEnsure, enable_device>>

backendVars == <<core_pointer, device_list>>

dispatchVars == <<lastCall>>

eventVars == <<seat_class, disposed, signalLog, lastEvent>>

vars == <<inhibitVars, a11yVars, eventVars, backendVars, dispatchVars>>

\* ---------------------------------------------------- focus inhibition
\* variant: the comparison written >= 0, true of every unsigned count
IsUnfocusInhibitedFromZero == inhibit_unfocus_count >= 0

\* clutter_seat_is_unfocus_inhibited: priv->inhibit_unfocus_count > 0
IsUnfocusInhibited == inhibit_unfocus_count > 0

\* inhibit_unfocus_count++ on an unsigned int.  The count wraps to 0 only at
\* 2^32, which no run of at most MaxCalls calls reaches (and which exceeds
\* the integers of the model checker), so the increment is exact here.
Increment(c) == c + 1

\* inhibit_unfocus_count--, which the code reaches only with a count above 0
Decrement(c) == c - 1

\* variant: every inhibit_unfocus() emits
InhibitEmitsEvery(c) == c >= 1

\* if (priv->inhibit_unfocus_count == 1) g_signal_emit (...), after the ++
InhibitEmits(c) == c = 1

\* variant: the guard against an unbalanced uninhibit_unfocus() left out
UninhibitNeverMisuse(c) == FALSE

\* if (priv->inhibit_unfocus_count == 0) { g_warning (...); return; }
UninhibitIsMisuse(c) == c = 0

\* if (priv->inhibit_unfocus_count == 0) g_signal_emit (...), after the --
UninhibitEmits(c) == c = 0

\* g_signal_emit: the handlers run one after another inside the emitting
\* call; an emission with no handler connected returns at once.  A handler
\* that calls back into the seat and changes the count makes every running
\* emission stale (clean = FALSE).
Touched(stack) == [i \in 1..Len(stack) |-> [stack[i] EXCEPT !.clean = FALSE]]

SignalEmit(stack, cause) ==
  IF NumHandlers = 0
    THEN stack
    ELSE Append(stack, [cause |-> cause, pending |-> NumHandlers, clean |-> TRUE])

\* room for one more nested emission
CanEmit == Len(emissions) < MaxDepth

\* variant: the emission of inhibit_unfocus() ahead of the increment;
\* the handlers of the 0 to 1 transition run while the count is still 0
InhibitUnfocusEmitFirst ==
  LET emit == inhibit_unfocus_count = 0
  IN /\ nInhibit < MaxCalls
     /\ emit => CanEmit
     /\ inhibit_unfocus_count' =
          IF emit THEN inhibit_unfocus_count ELSE Increment(inhibit_unfocus_count)
     /\ emissions' = IF emit THEN SignalEmit(Touched(emissions), "inhibit")
                     ELSE Touched(emissions)
     /\ nInhibit' = nInhibit + 1
     /\ nChanged' = IF emit THEN nChanged + 1 ELSE nChanged
     /\ lastInhibit' = [op |-> "inhibit", before |-> inhibit_unfocus_count,
                        after |-> inhibit_unfocus_count', emitted |-> emit,
                        warned |-> FALSE]
     /\ UNCHANGED <<nUninhibit, nWarnings, observed>>
     /\ UNCHANGED <<a11yVars, eventVars, backendVars, dispatchVars>>

\* clutter_seat_inhibit_unfocus, called from the application or from the
\* running handler
InhibitUnfocus ==
  LET c == Increment(inhibit_unfocus_count)
      emit == InhibitEmits(c)
  IN /\ nInhibit < MaxCalls
     /\ emit => CanEmit
     /\ inhibit_unfocus_count' = c
     /\ emissions' = IF emit THEN SignalEmit(Touched(emissions), "inhibit")
                     ELSE Touched(emissions)
     /\ nInhibit' = nInhibit + 1
     /\ nChanged' = IF emit THEN nChanged + 1 ELSE nChanged
     /\ lastInhibit' = [op |-> "inhibit", before |-> inhibit_unfocus_count,
                        after |-> c, emitted |-> emit, warned |-> FALSE]
     /\ UNCHANGED <<nUninhibit, nWarnings, observed>>
     /\ UNCHANGED <<a11yVars, eventVars, backendVars, dispatchVars>>

\* clutter_seat_uninhibit_unfocus
UninhibitUnfocus ==
  /\ nUninhibit < MaxCalls
  /\ nUninhibit' = nUninhibit + 1
  /\ IF UninhibitIsMisuse(inhibit_unfocus_count)
       THEN /\ nWarnings' = nWarnings + 1
            /\ lastInhibit' = [op |-> "uninhibit",
                               before |-> inhibit_unfocus_count,
                               after |-> inhibit_unfocus_count,
                               emitted |-> FALSE, warned |-> TRUE]
            /\ UNCHANGED <<inhibit_unfocus_count, emissions, nChanged>>
       ELSE LET c == Decrement(inhibit_unfocus_count)
                emit == UninhibitEmits(c)
            IN /\ emit => CanEmit
               /\ inhibit_unfocus_count' = c
               /\ emissions' = IF emit
                                 THEN SignalEmit(Touched(emissions), "uninhibit")
                                 ELSE Touched(emissions)
               /\ nChanged' = IF emit THEN nChanged + 1 ELSE nChanged
               /\ lastInhibit' = [op |-> "uninhibit",
                                  before |-> inhibit_unfocus_count,
                                  after |-> c, emitted |-> emit,
                                  warned |-> FALSE]
               /\ UNCHANGED nWarnings
  /\ UNCHANGED <<nInhibit, observed>>
  /\ UNCHANGED <<a11yVars, eventVars, backendVars, dispatchVars>>

\* the running handler calls clutter_seat_is_unfocus_inhibited
HandlerQuery ==
  /\ emissions # <<>>
  /\ LET top == emissions[Len(emissions)]
     IN observed' = [cause |-> top.cause, clean |-> top.clean,
                     value |-> IsUnfocusInhibited]
  /\ UNCHANGED <<inhibit_unfocus_count, emissions, nInhibit, nUninhibit,
                 nWarnings, nChanged, lastInhibit>>
  /\ UNCHANGED <<a11yVars, eventVars, backendVars, dispatchVars>>

\* the running handler returns: the next handler of the emission runs, or
\* g_signal_emit returns to the call that emitted
HandlerReturn ==
  /\ emissions # <<>>
  /\ LET n == Len(emissions)
         top == emissions[n]
     IN emissions' = IF top.pending > 1
                       THEN [emissions EXCEPT ![n].pending = top.pending - 1]
                       ELSE SubSeq(emissions, 1, n - 1)
  /\ UNCHANGED <<inhibit_unfocus_count, nInhibit, nUninhibit, nWarnings,
                 nChanged, lastInhibit, observed>>
  /\ UNCHANGED <<a11yVars, eventVars, backendVars, dispatchVars>>

\* ------------------------------------------------------------ the backend
Devices == 1..NumDevices

\* a NULL ClutterInputDevice *
NoDevice == 0

\* clutter_seat_get_pointer: CLUTTER_SEAT_GET_CLASS (seat)->get_pointer (seat)
GetPointer == core_pointer

\* no clutter_seat_ensure_a11y_state call since the settings or the
\* logical pointer last changed
NoEnsure == [calls |-> 0, added |-> FALSE]

\* the backend names another logical pointer, or none
BackendSetPointer(device) ==
  /\ core_pointer' = device
  /\ lastEnsure' = NoEnsure
  /\ UNCHANGED <<pointer_a11y_settings, hookLog, lastA11y, cycle, lastHook,
                 a11y_registered, enable_device>>
  /\ UNCHANGED device_list
  /\ UNCHANGED <<inhibitVars, eventVars, dispatchVars>>

\* ------------------------------------------- pointer accessibility settings
\* ClutterPointerA11ySettings: the controls bitmask, the dwell click type
\* and the remaining parameters
Settings == [controls : 0..MaxControls,
             dwell_click_type : 0..MaxClickType,
             dwell_delay : 0..MaxDelay]

ZeroSettings == [controls |-> 0, dwell_click_type |-> 0, dwell_delay |-> 0]

\* variant: only the controls compared
ControlsEqual(a, b) == a.controls = b.controls

\* memcmp (a, b, sizeof (ClutterPointerA11ySettings)) == 0: every field of
\* the structure takes part in the comparison
ArePointerA11ySettingsEqual(a, b) ==
  /\ a.controls = b.controls
  /\ a.dwell_click_type = b.dwell_click_type
  /\ a.dwell_delay = b.dwell_delay

\* variant: the stored controls not consulted
EnablesWheneverOn(stored, new) == new.controls # 0

\* priv->pointer_a11y_settings.controls == 0 && settings->controls != 0
EnablesPointerA11y(stored, new) == stored.controls = 0 /\ new.controls # 0

\* variant: the stored controls not consulted
DisablesWheneverOff(stored, new) == new.controls = 0

\* priv->pointer_a11y_settings.controls != 0 && settings->controls == 0
DisablesPointerA11y(stored, new) == stored.controls # 0 /\ new.controls = 0

\* clutter_seat_enable_pointer_a11y: _clutter_input_pointer_a11y_add_device
EnablePointerA11y(log) == Append(log, "add_device")

\* variant: the disable path calling the add hook
DisableCallsAddDevice(log) == Append(log, "add_device")

\* clutter_seat_disable_pointer_a11y:
\* _clutter_input_pointer_a11y_remove_device
DisablePointerA11y(log) == Append(log, "remove_device")

\* variant: the new settings not stored
KeepSettings(stored, new) == stored

\* priv->pointer_a11y_settings = *settings: the structure is copied whole
AssignSettings(stored, new) ==
  [controls |-> new.controls,
   dwell_click_type |-> new.dwell_click_type,
   dwell_delay |-> new.dwell_delay]

\* variant: the click type written to the controls field
WithControls(stored, click_type) == [stored EXCEPT !.controls = click_type]

\* priv->pointer_a11y_settings.dwell_click_type = click_type
WithDwellClickType(stored, click_type) ==
  [stored EXCEPT !.dwell_click_type = click_type]

\* _clutter_input_pointer_a11y_add_device: registers the device; a device
\* that is registered stays registered once, and no device is none
A11yAddDevice(registered, device) ==
  IF device = NoDevice THEN registered
  ELSE [registered EXCEPT ![device] = 1]

\* _clutter_input_pointer_a11y_remove_device
A11yRemoveDevice(registered, device) ==
  IF device = NoDevice THEN registered
  ELSE [registered EXCEPT ![device] = 0]

\* _clutter_is_input_pointer_a11y_enabled: pointer accessibility is on
IsInputPointerA11yEnabled(settings) == settings.controls # 0

\* no call into the pointer accessibility subsystem
NoHook == [hook |-> "none", device |-> NoDevice, stored |-> ZeroSettings]

\* the hooks one call invoked: the entries it added to the log
HooksSince(log, start) == SubSeq(log, start + 1, Len(log))

\* clutter_seat_set_pointer_a11y_settings
SetPointerA11ySettings(new) ==
  LET stored == pointer_a11y_settings
      log == IF ArePointerA11ySettingsEqual(stored, new) THEN hookLog
             ELSE IF EnablesPointerA11y(stored, new) THEN EnablePointerA11y(hookLog)
             ELSE IF DisablesPointerA11y(stored, new) THEN DisablePointerA11y(hookLog)
             ELSE hookLog
      after == IF ArePointerA11ySettingsEqual(stored, new) THEN stored
               ELSE AssignSettings(stored, new)
      hooks == HooksSince(log, Len(hookLog))
  IN /\ Len(hookLog) < MaxHookLog
     /\ pointer_a11y_settings' = after
     /\ hookLog' = log
     /\ lastHook' = IF hooks = <<>> THEN NoHook
                    ELSE [hook |-> hooks[1], device |-> GetPointer,
                          stored |-> stored]
     /\ a11y_registered' =
          IF hooks = <<"add_device">>
            THEN A11yAddDevice(a11y_registered, GetPointer)
          ELSE IF hooks = <<"remove_device">>
            THEN A11yRemoveDevice(a11y_registered, GetPointer)
          ELSE a11y_registered
     /\ enable_device' = IF hooks = <<"add_device">> THEN GetPointer
                                                      ELSE enable_device
     /\ lastEnsure' = NoEnsure
     /\ lastA11y' = [op |-> "set_settings", arg |-> new, click_type |-> 0,
                     before |-> stored, hooks |-> hooks, out |-> ZeroSettings,
                     repeat |-> (lastA11y.op = "set_settings" /\ lastA11y.arg = new)]
     /\ cycle' = IF stored.controls = 0 /\ after.controls # 0
                   THEN [phase |-> "enabled", hooks |-> hooks,
                         via_set |-> FALSE, via_dwell |-> FALSE]
                 ELSE IF cycle.phase = "enabled"
                   THEN [phase |-> IF after.controls = 0 THEN "done" ELSE "enabled",
                         hooks |-> cycle.hooks \o hooks,
                         via_set |-> \/ cycle.via_set
                                     \/ /\ new.controls = stored.controls
                                        /\ new.dwell_click_type # stored.dwell_click_type
                                        /\ new.dwell_delay = stored.dwell_delay,
                         via_dwell |-> cycle.via_dwell]
                 ELSE cycle
     /\ UNCHANGED <<inhibitVars, eventVars, backendVars, dispatchVars>>

\* *settings = priv->pointer_a11y_settings: what the caller of
\* clutter_seat_get_pointer_a11y_settings receives
PointerA11ySettingsCopy == AssignSettings(ZeroSettings, pointer_a11y_settings)

\* clutter_seat_get_pointer_a11y_settings
GetPointerA11ySettings ==
  /\ lastA11y' = [op |-> "get_settings", arg |-> ZeroSettings, click_type |-> 0,
                  before |-> pointer_a11y_settings, hooks |-> <<>>,
                  out |-> PointerA11ySettingsCopy,
                  repeat |-> FALSE]
  /\ lastHook' = NoHook
  /\ UNCHANGED <<pointer_a11y_settings, hookLog, cycle, a11y_registered,
                 lastEnsure, enable_device>>
  /\ UNCHANGED <<inhibitVars, eventVars, backendVars, dispatchVars>>

\* clutter_seat_set_pointer_a11y_dwell_click_type
SetPointerA11yDwellClickType(click_type) ==
  /\ pointer_a11y_settings' = WithDwellClickType(pointer_a11y_settings, click_type)
  /\ lastA11y' = [op |-> "set_dwell_click_type", arg |-> ZeroSettings,
                  click_type |-> click_type, before |-> pointer_a11y_settings,
                  hooks |-> <<>>, out |-> ZeroSettings, repeat |-> FALSE]
  /\ cycle' = IF cycle.phase = "enabled"
                   /\ click_type # pointer_a11y_settings.dwell_click_type
                THEN [cycle EXCEPT !.via_dwell = TRUE]
                ELSE cycle
  /\ lastHook' = NoHook
  /\ UNCHANGED <<hookLog, a11y_registered, lastEnsure, enable_device>>
  /\ UNCHANGED <<inhibitVars, eventVars, backendVars, dispatchVars>>

\* variant: the test of _clutter_is_input_pointer_a11y_enabled left out
EnsureIgnoresEnabled(pointer, enabled) == pointer # NoDevice

\* if (core_pointer) { if (_clutter_is_input_pointer_a11y_enabled (...)) ...
EnsureRegisters(pointer, enabled) == pointer # NoDevice /\ enabled

\* clutter_seat_ensure_a11y_state.  lastEnsure.calls is 1 after a first
\* call and 2 after any further call made before the settings or the
\* logical pointer change.
EnsureA11yState ==
  LET pointer == GetPointer
      enabled == IsInputPointerA11yEnabled(pointer_a11y_settings)
      add == EnsureRegisters(pointer, enabled)
      after == IF add THEN A11yAddDevice(a11y_registered, pointer)
               ELSE a11y_registered
  IN /\ a11y_registered' = after
     /\ lastHook' = IF add THEN [hook |-> "add_device", device |-> pointer,
                                  stored |-> pointer_a11y_settings]
                    ELSE NoHook
     /\ lastEnsure' = [calls |-> IF lastEnsure.calls = 0 THEN 1 ELSE 2,
                       added |-> add]
     /\ UNCHANGED <<pointer_a11y_settings, hookLog, lastA11y, cycle,
                    enable_device>>
     /\ UNCHANGED <<inhibitVars, eventVars, backendVars, dispatchVars>>

\* ------------------------------------------------------ device lifecycle
\* event->type: the two device lifecycle types and any other type
EventTypes == {"DEVICE_ADDED", "DEVICE_REMOVED", "OTHER"}

\* a ClutterEvent with its source device (clutter_event_get_source_device)
Events == [type : EventTypes, device : Devices]

\* variant: a removed device disposed ahead of its notification
RemovedDisposesFirst(has_hook, type) ==
  (IF has_hook THEN <<"class_hook">> ELSE <<>>) \o
  (CASE type = "DEVICE_ADDED" -> <<"device-added">>
     [] type = "DEVICE_REMOVED" -> <<"run_dispose", "device-removed">>
     [] OTHER -> <<>>)

\* variant: the class hook run after the switch on the type
HookRunsLast(has_hook, type) ==
  (CASE type = "DEVICE_ADDED" -> <<"device-added">>
     [] type = "DEVICE_REMOVED" -> <<"device-removed", "run_dispose">>
     [] OTHER -> <<>>) \o
  (IF has_hook THEN <<"class_hook">> ELSE <<>>)

\* variant: the default case falling into the DEVICE_ADDED case
OtherEmitsAdded(has_hook, type) ==
  (IF has_hook THEN <<"class_hook">> ELSE <<>>) \o
  (CASE type = "DEVICE_REMOVED" -> <<"device-removed", "run_dispose">>
     [] OTHER -> <<"device-added">>)

\* what clutter_seat_handle_event_post does, in the order of its statements:
\* the class hook when the backend defines one, then the switch on the type
HandleEventPostSteps(has_hook, type) ==
  (IF has_hook THEN <<"class_hook">> ELSE <<>>) \o
  (CASE type = "DEVICE_ADDED" -> <<"device-added">>
     [] type = "DEVICE_REMOVED" -> <<"device-removed", "run_dispose">>
     [] OTHER -> <<>>)

\* the statements run one after another on the device; each is recorded
\* with the number of times the device has been disposed when it runs
RECURSIVE RunSteps(_, _, _, _)
RunSteps(steps, device, disp, trace) ==
  IF steps = <<>>
    THEN [disposed |-> disp, trace |-> trace]
    ELSE LET step == Head(steps)
             rec == [step |-> step, device |-> device, disposed |-> disp[device]]
         IN RunSteps(Tail(steps), device,
                     IF step = "run_dispose"
                       THEN [disp EXCEPT ![device] = disp[device] + 1]
                       ELSE disp,
                     Append(trace, rec))

IsSignal(rec) == rec.step \in {"device-added", "device-removed"}

\* what the class hook may hand back to the seat; with no hook there is
\* no result
HookResults(has_hook) == IF has_hook THEN {"TRUE", "FALSE"} ELSE {"none"}

\* variant: the seat passing on what the class hook handed back
ReturnsHookResult(hook_result) == hook_result # "FALSE"

\* the value clutter_seat_handle_event_post returns once both guards have
\* passed: the result of the class hook is dropped
HandleEventPostReturn(hook_result) == TRUE

\* clutter_seat_handle_event_post on a seat and an event that pass the
\* guards.  The event pipeline hands over events whose source device is a
\* device the backend has not removed yet.
HandleEventPost(event) ==
  LET run == RunSteps(HandleEventPostSteps(seat_class.handle_event_post, event.type),
                      event.device, disposed, <<>>)
  IN /\ disposed[event.device] = 0
     /\ Len(signalLog) < MaxSignals
     /\ disposed' = run.disposed
     /\ signalLog' = signalLog \o SelectSeq(run.trace, IsSignal)
     /\ \E hook_result \in HookResults(seat_class.handle_event_post) :
          lastEvent' = [type |-> event.type, device |-> event.device,
                        trace |-> run.trace, hook_result |-> hook_result,
                        ret |-> HandleEventPostReturn(hook_result)]
     /\ UNCHANGED seat_class
     /\ UNCHANGED <<inhibitVars, a11yVars, core_pointer>>

\* ------------------------------------------------------ grab and ungrab
\* ClutterGrabState
GrabStates == {"NONE", "POINTER", "KEYBOARD", "ALL"}

\* a call that has not been made
NoCall == [op |-> "none", valid |-> TRUE, time |-> 0, vfunc |-> FALSE,
           backend |-> "none", outcome |-> "none", ret |-> "none",
           devices |-> <<>>]

\* variant: the all-encompassing state whatever the backend obtained
GrabAlwaysAll(has_grab, backend_ret) == "ALL"

\* what clutter_seat_grab returns: the result of the class function when
\* the backend defines one, CLUTTER_GRAB_STATE_ALL otherwise
GrabResult(has_grab, backend_ret) ==
  IF has_grab THEN backend_ret ELSE "ALL"

\* what the class function hands back; with none there is no result
GrabBackendResults(has_grab) == IF has_grab THEN GrabStates ELSE {"none"}

\* clutter_seat_grab on a seat
Grab(time) ==
  /\ \E backend_ret \in GrabBackendResults(seat_class.grab) :
       lastCall' = [op |-> "grab", valid |-> TRUE, time |-> time,
                    vfunc |-> seat_class.grab, backend |-> backend_ret,
                    outcome |-> "returned",
                    ret |-> GrabResult(seat_class.grab, backend_ret),
                    devices |-> <<>>]
  /\ UNCHANGED <<inhibitVars, a11yVars, eventVars, backendVars>>

\* clutter_seat_ungrab on a seat: the class function when the backend
\* defines one, nothing otherwise
Ungrab(time) ==
  /\ lastCall' = [op |-> "ungrab", valid |-> TRUE, time |-> time,
                  vfunc |-> seat_class.ungrab, backend |-> "none",
                  outcome |-> "returned", ret |-> "void", devices |-> <<>>]
  /\ UNCHANGED <<inhibitVars, a11yVars, eventVars, backendVars>>

\* ------------------------------------------------- calls on no seat at all
\* the public operations of the seat and the value each hands back from a
\* failed g_return_if_fail / g_return_val_if_fail
NeutralValue ==
  [get_pointer |-> "NULL", get_keyboard |-> "NULL", peek_devices |-> "NULL",
   list_devices |-> "NULL", bell_notify |-> "void", get_keymap |-> "NULL",
   ensure_a11y_state |-> "void", set_pointer_a11y_settings |-> "void",
   get_pointer_a11y_settings |-> "void",
   set_pointer_a11y_dwell_click_type |-> "void", inhibit_unfocus |-> "void",
   uninhibit_unfocus |-> "void", is_unfocus_inhibited |-> "FALSE",
   create_virtual_device |-> "NULL",
   get_supported_virtual_device_types |-> "NONE",
   handle_event_post |-> "FALSE", warp_pointer |-> "void",
   init_pointer_position |-> "void", get_touch_mode |-> "FALSE",
   has_touchscreen |-> "FALSE", query_state |-> "FALSE", grab |-> "NONE",
   ungrab |-> "void"]

PublicOps == DOMAIN NeutralValue

\* the operations that reach CLUTTER_SEAT_GET_CLASS (seat) with no
\* CLUTTER_IS_SEAT guard ahead of it
Unguarded == {"bell_notify", "get_keymap", "grab", "ungrab"}

\* TRUE when the operation, or the first seat operation it calls, checks
\* CLUTTER_IS_SEAT (seat): clutter_seat_ensure_a11y_state has no guard of its
\* own, and clutter_seat_get_pointer hands it NULL
HasSeatGuard(op) == op \notin Unguarded

\* what reading the class through a seat that is no seat may do: the read
\* faults, or it yields some class whose function is called, or (grab and
\* ungrab, which test the function first) the call returns without one
UndefinedOutcomes(op) ==
  {"crash", "vfunc"} \cup
  (IF op \in {"grab", "ungrab"} THEN {"returned"} ELSE {})

\* a public operation called with NULL, or with something that is no seat
InvalidSeatCall(op) ==
  /\ \E outcome \in (IF HasSeatGuard(op) THEN {"returned"}
                                         ELSE UndefinedOutcomes(op)) :
       lastCall' = [op |-> op, valid |-> FALSE, time |-> 0,
                    vfunc |-> (outcome = "vfunc"), backend |-> "none",
                    outcome |-> outcome,
                    ret |-> IF outcome = "returned" THEN NeutralValue[op]
                                                    ELSE "none",
                    devices |-> <<>>]
  /\ UNCHANGED <<inhibitVars, a11yVars, eventVars, backendVars>>

\* clutter_seat_query_state on a seat, with a device that is no input
\* device: the second guard
InvalidDeviceQueryState ==
  /\ lastCall' = [op |-> "query_state", valid |-> FALSE, time |-> 0,
                  vfunc |-> FALSE, backend |-> "none",
                  outcome |-> "returned", ret |-> NeutralValue.query_state,
                  devices |-> <<>>]
  /\ UNCHANGED <<inhibitVars, a11yVars, eventVars, backendVars>>

\* ------------------------------------------------------- the device list
\* clutter_input_device_get_device_mode and _get_device_type, as far as
\* clutter_seat_has_touchscreen tells them apart
\* the devices of the model, in turn: a logical pointer, a physical
\* touchscreen, a logical touchscreen, a physical pointer, and so on
DeviceMode(device) == IF device % 2 = 0 THEN "PHYSICAL" ELSE "LOGICAL"
DeviceType(device) ==
  IF device % 4 \in {2, 3} THEN "TOUCHSCREEN_DEVICE" ELSE "POINTER_DEVICE"

\* clutter_seat_peek_devices: the list the backend keeps
PeekDevices == device_list

\* variant: a copy that loses the first element
GListCopyDropsHead(list) == IF list = <<>> THEN <<>> ELSE Tail(list)

\* g_list_copy: a new list with the elements of the old one, in order
RECURSIVE GListCopy(_)
GListCopy(list) ==
  IF list = <<>> THEN <<>> ELSE <<Head(list)>> \o GListCopy(Tail(list))

\* clutter_seat_list_devices
ListDevices == GListCopy(PeekDevices)

\* the loop of clutter_seat_has_touchscreen: stop at the first device that
\* is not logical and is a touchscreen
RECURSIVE HasTouchscreenIn(_)
HasTouchscreenIn(devices) ==
  IF devices = <<>> THEN FALSE
  ELSE IF /\ DeviceMode(Head(devices)) # "LOGICAL"
          /\ DeviceType(Head(devices)) = "TOUCHSCREEN_DEVICE"
         THEN TRUE
         ELSE HasTouchscreenIn(Tail(devices))

\* clutter_seat_has_touchscreen
HasTouchscreen == HasTouchscreenIn(PeekDevices)

\* clutter_seat_get_property: the value the seat gives for touch-mode
SeatGetProperty(prop_id) == FALSE

\* clutter_seat_get_touch_mode: g_object_get of the touch-mode property
GetTouchMode == SeatGetProperty("PROP_TOUCH_MODE")

BoolName(b) == IF b THEN "TRUE" ELSE "FALSE"

InList(device, list) == \E i \in 1..Len(list) : list[i] = device

\* the backend takes a new device into its list and the DEVICE_ADDED event
\* for it reaches clutter_seat_handle_event_post
BackendDeviceAdded(device) ==
  /\ ~InList(device, device_list)
  /\ device_list' = Append(device_list, device)
  /\ lastCall' = NoCall
  /\ HandleEventPost([type |-> "DEVICE_ADDED", device |-> device])

\* the backend takes a device out of its list and the DEVICE_REMOVED event
\* for it reaches clutter_seat_handle_event_post
BackendDeviceRemoved(device) ==
  /\ InList(device, device_list)
  /\ device_list' = SelectSeq(device_list, LAMBDA d : d # device)
  /\ lastCall' = NoCall
  /\ HandleEventPost([type |-> "DEVICE_REMOVED", device |-> device])

\* any other event of a listed device
BackendDeviceEvent(device) ==
  /\ InList(device, device_list)
  /\ UNCHANGED device_list
  /\ lastCall' = NoCall
  /\ HandleEventPost([type |-> "OTHER", device |-> device])

\* a call of clutter_seat_list_devices, clutter_seat_has_touchscreen or
\* clutter_seat_get_touch_mode on a seat; devices is the list that
\* list_devices hands back.  lastCall holds the latest such call made since
\* the last device event.
DeviceQuery(op) ==
  /\ lastCall' = [op |-> op, valid |-> TRUE, time |-> 0, vfunc |-> TRUE,
                  backend |-> "none", outcome |-> "returned",
                  ret |-> CASE op = "list_devices" -> "list"
                            [] op = "has_touchscreen" -> BoolName(HasTouchscreen)
                            [] op = "get_touch_mode" -> BoolName(GetTouchMode),
                  devices |-> IF op = "list_devices" THEN ListDevices
                                                     ELSE <<>>]
  /\ UNCHANGED <<inhibitVars, a11yVars, eventVars, backendVars>>

DeviceQueries == {"list_devices", "has_touchscreen", "get_touch_mode"}

\* ------------------------------------------------------------ the machine
\* clutter_seat_init: the private structure starts zeroed, and nothing has
\* been called
InitPrivate ==
  /\ inhibit_unfocus_count = 0
  /\ emissions = <<>>
  /\ nInhibit = 0
  /\ nUninhibit = 0
  /\ nWarnings = 0
  /\ nChanged = 0
  /\ lastInhibit = [op |-> "none", before |-> 0, after |-> 0,
                    emitted |-> FALSE, warned |-> FALSE]
  /\ observed = [cause |-> "none", clean |-> TRUE, value |-> FALSE]
  /\ pointer_a11y_settings = ZeroSettings
  /\ hookLog = <<>>
  /\ lastA11y = [op |-> "none", arg |-> ZeroSettings, click_type |-> 0,
                 before |-> ZeroSettings, hooks |-> <<>>, out |-> ZeroSettings,
                 repeat |-> FALSE]
  /\ cycle = [phase |-> "idle", hooks |-> <<>>, via_set |-> FALSE,
              via_dwell |-> FALSE]
  /\ disposed = [d \in Devices |-> 0]
  /\ signalLog = <<>>
  /\ lastEvent = [type |-> "none", device |-> 1, trace |-> <<>>,
                  hook_result |-> "none", ret |-> FALSE]
  /\ lastHook = NoHook
  /\ a11y_registered = [d \in Devices |-> 0]
  /\ lastEnsure = NoEnsure
  /\ enable_device = NoDevice
  /\ core_pointer = NoDevice
  /\ device_list = <<>>
  /\ lastCall = NoCall

\* the classes a backend may register: any choice of the optional class
\* functions
SeatClasses == [handle_event_post : BOOLEAN, grab : BOOLEAN, ungrab : BOOLEAN]

\* a new seat of a backend that has no grab and no ungrab, with or without
\* the event hook
Init ==
  /\ InitPrivate
  /\ seat_class \in {class \in SeatClasses : ~class.grab /\ ~class.ungrab}

\* the seat of another backend takes the place of the seat: a new object of
\* that backend's class, its private structure zeroed
SeatNew(class) ==
  /\ seat_class' = class
  /\ inhibit_unfocus_count' = 0
  /\ emissions' = <<>>
  /\ nInhibit' = 0
  /\ nUninhibit' = 0
  /\ nWarnings' = 0
  /\ nChanged' = 0
  /\ lastInhibit' = [op |-> "none", before |-> 0, after |-> 0,
                    emitted |-> FALSE, warned |-> FALSE]
  /\ observed' = [cause |-> "none", clean |-> TRUE, value |-> FALSE]
  /\ pointer_a11y_settings' = ZeroSettings
  /\ hookLog' = <<>>
  /\ lastA11y' = [op |-> "none", arg |-> ZeroSettings, click_type |-> 0,
                 before |-> ZeroSettings, hooks |-> <<>>, out |-> ZeroSettings,
                 repeat |-> FALSE]
  /\ cycle' = [phase |-> "idle", hooks |-> <<>>, via_set |-> FALSE,
              via_dwell |-> FALSE]
  /\ disposed' = [d \in Devices |-> 0]
  /\ signalLog' = <<>>
  /\ lastEvent' = [type |-> "none", device |-> 1, trace |-> <<>>,
                  hook_result |-> "none", ret |-> FALSE]
  /\ lastHook' = NoHook
  /\ a11y_registered' = [d \in Devices |-> 0]
  /\ lastEnsure' = NoEnsure
  /\ enable_device' = NoDevice
  /\ core_pointer' = NoDevice
  /\ device_list' = <<>>
  /\ lastCall' = NoCall

NextInhibit ==
  \/ InhibitUnfocus
  \/ UninhibitUnfocus
  \/ HandlerQuery
  \/ HandlerReturn

NextA11y ==
  \/ \E new \in Settings : SetPointerA11ySettings(new)
  \/ \E click_type \in 0..MaxClickType : SetPointerA11yDwellClickType(click_type)
  \/ GetPointerA11ySettings

NextEvents ==
  \E event \in Events :
    HandleEventPost(event) /\ UNCHANGED <<device_list, lastCall>>

\* settings that differ in their controls alone
ControlsSettings ==
  {new \in Settings : new.dwell_click_type = 0 /\ new.dwell_delay = 0}

NextEnsure ==
  \/ \E new \in ControlsSettings : SetPointerA11ySettings(new)
  \/ EnsureA11yState
  \/ \E device \in 0..NumPointers : BackendSetPointer(device)

NextDispatch ==
  \/ \E time \in 0..MaxTime : Grab(time)
  \/ \E time \in 0..MaxTime : Ungrab(time)
  \/ \E op \in PublicOps : InvalidSeatCall(op)
  \/ InvalidDeviceQueryState
  \/ \E class \in SeatClasses : SeatNew(class)

NextDevices ==
  \/ \E device \in Devices : BackendDeviceAdded(device)
  \/ \E device \in Devices : BackendDeviceRemoved(device)
  \/ \E device \in Devices : BackendDeviceEvent(device)
  \/ \E op \in DeviceQueries : DeviceQuery(op)

Next ==
  \/ NextInhibit \/ NextA11y \/ NextEvents \/ NextEnsure \/ NextDispatch
  \/ NextDevices

Spec == Init /\ [][Next]_vars

\* the focus-inhibition calls and the handlers of their signal alone
SpecInhibit == Init /\ [][NextInhibit]_vars

\* the pointer accessibility calls alone
SpecA11y == Init /\ [][NextA11y]_vars

\* the accessibility settings, clutter_seat_ensure_a11y_state and the
\* backend's logical pointer
SpecEnsure == Init /\ [][NextEnsure]_vars

\* the event pipeline alone
SpecDispatch == Init /\ [][NextDispatch]_vars

SpecDevices == Init /\ [][NextDevices]_vars

SpecEvents == Init /\ [][NextEvents]_vars
\* ------------------------------------------------------------- properties
\* C1 as stated: after any calls of inhibit_unfocus and uninhibit_unfocus,
\* is_unfocus_inhibited() is true iff the inhibit calls made minus the
\* uninhibit calls made is above 0.
C1_InhibitedIffCallDifference ==
  IsUnfocusInhibited <=> (nInhibit - nUninhibit > 0)

\* C1 amended: is_unfocus_inhibited() is true iff the inhibit calls made
\* minus the uninhibit calls that did not warn (those made with a count
\* above 0) is above 0.
C1_InhibitedIffOutstanding ==
  IsUnfocusInhibited <=> (nInhibit - (nUninhibit - nWarnings) > 0)

C1_Witness ==
  /\ emissions = <<>>
  /\ nWarnings > 0
  /\ IsUnfocusInhibited
  /\ nInhibit - nUninhibit <= 0

\* C2: is-unfocus-inhibited-changed is emitted exactly once by a call that
\* takes the count from 0 to 1 or from 1 to 0, and not at all by any other
\* call, in particular one that moves the count between nonzero values.
C2_ChangedOncePerBoundaryCrossing ==
  [][nChanged' - nChanged =
       IF \/ inhibit_unfocus_count = 0 /\ inhibit_unfocus_count' = 1
          \/ inhibit_unfocus_count = 1 /\ inhibit_unfocus_count' = 0
         THEN 1 ELSE 0]_vars

C2_Witness ==
  /\ nInhibit = 2
  /\ nChanged = 2
  /\ nWarnings = 0
  /\ lastInhibit.op = "uninhibit"
  /\ lastInhibit.before = 1
  /\ inhibit_unfocus_count = 0

\* C3: uninhibit_unfocus() called with a count of 0 leaves the count at 0,
\* emits no is-unfocus-inhibited-changed and only reports a warning.
C3_UninhibitAtZeroOnlyWarns ==
  [][(nUninhibit' # nUninhibit /\ inhibit_unfocus_count = 0) =>
       /\ inhibit_unfocus_count' = 0
       /\ nChanged' = nChanged
       /\ emissions' = emissions
       /\ nWarnings' = nWarnings + 1
       /\ UNCHANGED <<nInhibit, a11yVars, eventVars>>]_vars

C3_Witness ==
  /\ lastInhibit.op = "uninhibit"
  /\ lastInhibit.before = 0
  /\ lastInhibit.warned
  /\ nInhibit > 0
  /\ inhibit_unfocus_count = 0

\* C4 as stated: a handler of is-unfocus-inhibited-changed that calls
\* is_unfocus_inhibited() sees true in an emission of the 0 to 1 transition
\* and false in one of the 1 to 0 transition, also after handlers have
\* called inhibit_unfocus() or uninhibit_unfocus() themselves.
C4_HandlerSeesTransitionAlways ==
  /\ observed.cause = "inhibit" => observed.value
  /\ observed.cause = "uninhibit" => ~observed.value

\* C4 amended: the count is updated before the emission starts, so a
\* handler that calls is_unfocus_inhibited() while no handler has changed
\* the count since the emission started sees true in an emission of the
\* 0 to 1 transition and false in one of the 1 to 0 transition.
C4_HandlerSeesCompletedMutation ==
  observed.clean =>
    /\ observed.cause = "inhibit" => observed.value
    /\ observed.cause = "uninhibit" => ~observed.value

C4_Witness ==
  /\ Len(emissions) = 2
  /\ emissions[1].cause = "inhibit"
  /\ emissions[2].cause = "uninhibit"
  /\ observed = [cause |-> "uninhibit", clean |-> TRUE, value |-> FALSE]

\* C5: set_pointer_a11y_settings(new) invokes the enable hook exactly when
\* the stored controls is 0 and new.controls is not, the disable hook
\* exactly when the stored controls is not 0 and new.controls is, and no
\* hook otherwise.
C5_HookFollowsControlsTransition ==
  lastA11y.op = "set_settings" =>
    lastA11y.hooks =
      IF lastA11y.before.controls = 0 /\ lastA11y.arg.controls # 0
        THEN <<"add_device">>
      ELSE IF lastA11y.before.controls # 0 /\ lastA11y.arg.controls = 0
        THEN <<"remove_device">>
      ELSE <<>>

C5_Witness ==
  /\ lastA11y.op = "set_settings"
  /\ lastA11y.before.controls # 0
  /\ lastA11y.arg.controls # 0
  /\ lastA11y.arg.controls # lastA11y.before.controls
  /\ lastA11y.arg.dwell_click_type # lastA11y.before.dwell_click_type
  /\ lastA11y.hooks = <<>>
  /\ hookLog = <<"add_device">>

\* C6: from the call that takes the stored controls from 0 to a nonzero
\* value to the call that takes it back to 0, whatever dwell-click updates
\* come in between, the enable hook is invoked exactly once and then the
\* disable hook exactly once.
C6_EnableOnceThenDisableOnce ==
  /\ cycle.phase = "enabled" => cycle.hooks = <<"add_device">>
  /\ cycle.phase = "done" => cycle.hooks = <<"add_device", "remove_device">>

C6_Witness ==
  /\ cycle.phase = "done"
  /\ cycle.via_set
  /\ cycle.via_dwell
  /\ pointer_a11y_settings.controls = 0

\* C7: a set_pointer_a11y_settings(s) that directly follows a
\* set_pointer_a11y_settings(s) with the same s invokes no hook and leaves
\* the stored settings as they were.
C7_RepeatedSetIsNoOp ==
  (lastA11y.op = "set_settings" /\ lastA11y.repeat) =>
    /\ lastA11y.hooks = <<>>
    /\ pointer_a11y_settings = lastA11y.before

C7_Witness ==
  /\ lastA11y.op = "set_settings"
  /\ lastA11y.repeat
  /\ lastA11y.arg.controls # 0
  /\ hookLog = <<"add_device">>

\* C8: set_pointer_a11y_dwell_click_type(type) sets dwell_click_type to
\* type, leaves controls and the other fields as they were and invokes no
\* hook, also when controls is 0.
C8_DwellClickTypeOnly ==
  [][lastA11y'.op = "set_dwell_click_type" =>
       /\ pointer_a11y_settings'.dwell_click_type = lastA11y'.click_type
       /\ pointer_a11y_settings'.controls = pointer_a11y_settings.controls
       /\ pointer_a11y_settings'.dwell_delay = pointer_a11y_settings.dwell_delay
       /\ hookLog' = hookLog]_vars

C8_Witness ==
  /\ lastA11y.op = "set_dwell_click_type"
  /\ lastA11y.before.controls = 0
  /\ lastA11y.before.dwell_click_type = 0
  /\ lastA11y.click_type # 0
  /\ pointer_a11y_settings.dwell_click_type = lastA11y.click_type
  /\ hookLog = <<>>

\* C9: after set_pointer_a11y_settings(new) returns,
\* get_pointer_a11y_settings() yields new in every field.
C9_SetThenGet ==
  lastA11y.op = "set_settings" => PointerA11ySettingsCopy = lastA11y.arg

C9_Witness ==
  /\ lastA11y.op = "set_settings"
  /\ lastA11y.hooks = <<>>
  /\ lastA11y.before.controls # 0
  /\ lastA11y.arg.controls = lastA11y.before.controls
  /\ lastA11y.arg.dwell_click_type # lastA11y.before.dwell_click_type
  /\ PointerA11ySettingsCopy = lastA11y.arg

\* C10: for a DEVICE_REMOVED event handle_event_post emits device-removed
\* with the source device while the device is not disposed, then disposes
\* the device once; for a DEVICE_ADDED event it emits device-added with the
\* device and does not dispose it.
StepsNamed(trace, step) == {i \in 1..Len(trace) : trace[i].step = step}

C10_RemovedEmitsThenDisposes ==
  LET t == lastEvent.trace
      d == lastEvent.device
  IN /\ lastEvent.type = "DEVICE_REMOVED" =>
          /\ Cardinality(StepsNamed(t, "device-removed")) = 1
          /\ Cardinality(StepsNamed(t, "run_dispose")) = 1
          /\ \A i \in StepsNamed(t, "device-removed") :
               /\ t[i].device = d
               /\ t[i].disposed = 0
               /\ \A j \in StepsNamed(t, "run_dispose") : i < j /\ t[j].device = d
          /\ disposed[d] = 1
     /\ lastEvent.type = "DEVICE_ADDED" =>
          /\ Cardinality(StepsNamed(t, "device-added")) = 1
          /\ \A i \in StepsNamed(t, "device-added") :
               t[i].device = d /\ t[i].disposed = 0
          /\ StepsNamed(t, "run_dispose") = {}
          /\ disposed[d] = 0

C10_Witness ==
  /\ lastEvent.type = "DEVICE_REMOVED"
  /\ signalLog = <<[step |-> "device-added", device |-> lastEvent.device,
                    disposed |-> 0],
                   [step |-> "device-removed", device |-> lastEvent.device,
                    disposed |-> 0]>>
  /\ disposed[lastEvent.device] = 1

\* C11: when the backend defines the post-processing hook,
\* handle_event_post invokes it exactly once per event, ahead of any
\* device-added or device-removed notification and of any disposal.
C11_ClassHookOnceAndFirst ==
  LET t == lastEvent.trace
  IN (lastEvent.type # "none" /\ seat_class.handle_event_post) =>
       /\ Cardinality(StepsNamed(t, "class_hook")) = 1
       /\ \A i \in StepsNamed(t, "class_hook") :
            \A j \in 1..Len(t) : t[j].step # "class_hook" => i < j

C11_Witness ==
  /\ seat_class.handle_event_post
  /\ lastEvent.type = "DEVICE_REMOVED"
  /\ Len(lastEvent.trace) = 3
  /\ lastEvent.trace[1].step = "class_hook"

\* C18: for an event that is neither DEVICE_ADDED nor DEVICE_REMOVED,
\* handle_event_post emits no device notification, disposes no device and
\* leaves inhibit_unfocus_count and pointer_a11y_settings as they were.
C18_OtherEventNoSeatEffect ==
  [][lastEvent'.type = "OTHER" =>
       /\ signalLog' = signalLog
       /\ disposed' = disposed
       /\ inhibit_unfocus_count' = inhibit_unfocus_count
       /\ pointer_a11y_settings' = pointer_a11y_settings
       /\ \A i \in 1..Len(lastEvent'.trace) :
            lastEvent'.trace[i].step = "class_hook"]_vars

C18_Witness ==
  /\ lastEvent.type = "OTHER"
  /\ Len(signalLog) = 1
  /\ signalLog[1].device = lastEvent.device
  /\ disposed[lastEvent.device] = 0

\* C20: after any set_pointer_a11y_settings and
\* set_pointer_a11y_dwell_click_type calls on a fresh seat, the enable-hook
\* invocations minus the disable-hook invocations is 0 or 1, and it is 1
\* iff the stored controls is nonzero.
HookCount(hook) == Cardinality({i \in 1..Len(hookLog) : hookLog[i] = hook})

C20_EnabledBalance ==
  LET balance == HookCount("add_device") - HookCount("remove_device")
  IN /\ balance \in {0, 1}
     /\ balance = 1 <=> pointer_a11y_settings.controls # 0

C20_Witness ==
  /\ hookLog = <<"add_device", "remove_device", "add_device">>
  /\ pointer_a11y_settings.controls # 0
  /\ lastA11y.op = "set_dwell_click_type"

C17_StoredBeforeHook ==
  (lastA11y.op = "set_settings" /\ lastHook.hook # "none") =>
    lastHook.stored = lastA11y.arg

\* C19: handle_event_post returns true for every event type, whether or
\* not the backend defines the post-processing hook and whatever the hook
\* hands back.
C19_HandleEventPostReturnsTrue ==
  lastEvent.type # "none" => lastEvent.ret = TRUE

C19_Witness ==
  /\ lastEvent.type = "OTHER"
  /\ lastEvent.hook_result = "FALSE"
  /\ lastEvent.ret = TRUE

\* C12: every public seat operation given a null or invalid seat handle
\* (or, for query_state, an invalid device) returns its neutral value
\* without calling a backend virtual function.
C12_InvalidHandleIsNeutral ==
  (lastCall.op # "none" /\ ~lastCall.valid) =>
    /\ lastCall.outcome = "returned"
    /\ lastCall.ret = NeutralValue[lastCall.op]
    /\ ~lastCall.vfunc

\* C15: with no backend grab, grab(time) returns the all-encompassing grab
\* state for every time and touches nothing; with no backend ungrab,
\* ungrab(time) does nothing; with them, the seat calls the backend and
\* grab returns exactly the backend's result.
C15_GrabUngrabDefaults ==
  [][(lastCall'.valid /\ lastCall' # lastCall) =>
       /\ lastCall'.op = "grab" =>
            /\ lastCall'.vfunc = seat_class.grab
            /\ seat_class.grab => lastCall'.ret = lastCall'.backend
            /\ ~seat_class.grab =>
                 /\ lastCall'.ret = "ALL"
                 /\ UNCHANGED <<inhibitVars, a11yVars, eventVars, backendVars>>
       /\ lastCall'.op = "ungrab" =>
            /\ lastCall'.vfunc = seat_class.ungrab
            /\ ~seat_class.ungrab =>
                 UNCHANGED <<inhibitVars, a11yVars, eventVars, backendVars>>]_vars

C15_Witness ==
  /\ ~seat_class.grab
  /\ lastCall.op = "grab"
  /\ lastCall.valid
  /\ lastCall.time = MaxTime
  /\ lastCall.ret = "ALL"

\* C14: the touch_mode query returns true exactly when the device list
\* holds a device that is not logical and is a touchscreen (so false for
\* an empty list).
C14_TouchModeIffTouchscreen ==
  (lastCall.op = "get_touch_mode" /\ lastCall.valid) =>
    (lastCall.ret = "TRUE" <=> HasTouchscreen)

C21_HookGetsExistingPointer ==
  lastHook.hook # "none" => lastHook.device # NoDevice

\* C22: the device handed to the remove-device hook on an enabled to
\* disabled transition of set_pointer_a11y_settings is the device that was
\* handed to the add-device hook on the preceding disabled to enabled
\* transition.
C22_RemoveGetsAddedDevice ==
  (lastA11y.op = "set_settings" /\ lastHook.hook = "remove_device") =>
    lastHook.device = enable_device

====
